---- MODULE Spec2Model ----
(***************************************************************************)
(* Native-call bridge of SwiftMQuickJS (Sources/CMQuickJS/mqjs_bridge.c):  *)
(* the process-wide dispatch callback, the per-context opaque pointer, the *)
(* minting of native function values and the trampoline the engine calls   *)
(* when script invokes one of them.                                        *)
(***************************************************************************)
EXTENDS Integers, Sequences, FiniteSets, TLC

VARIABLES
    g_native_callback,   \* the process-wide dispatch callback, or NULL
    ctx_opaque,          \* the opaque pointer slot of each context
    funcs,               \* the native function values minted so far
    last,                \* the most recent call of the trampoline, as the
                         \* engine and the callback saw it
    last_callback_arg,   \* history: argument of the last registration
    last_opaque_arg      \* history: last pointer set, per context

vars == <<g_native_callback, ctx_opaque, funcs, last, last_callback_arg,
          last_opaque_arg>>

(***************************************************************************)
(* Bounds and input domains                                                *)
(***************************************************************************)
\* Largest number of native function values alive at once.
MaxFuncs == 2

NULL == "NULL"
Unset == "unset"

Contexts == {"ctx1", "ctx2"}
Callbacks == {"cb1", "cb2"}
Pointers == {"p1", "p2"}

INT32_MIN == -2147483647 - 1
INT32_MAX == 2147483647

\* 5 and 7 are short integers, INT32_MIN is not.
FunctionIds == {5, 7, INT32_MIN}

(***************************************************************************)
(* Engine values                                                           *)
(***************************************************************************)
JSVal(t, x) == [tag |-> t, v |-> x]

JS_UNDEFINED == JSVal("undefined", 0)
JS_EXCEPTION == JSVal("exception", 0)
JSObject(n) == JSVal("object", n)

JS_SHORTINT_MIN == -1073741824
JS_SHORTINT_MAX == 1073741823

\* A 32-bit integer becomes a tagged short integer when it fits in 31 bits
\* and a boxed float64 otherwise.
JS_NewInt32(val) ==
    IF JS_SHORTINT_MIN <= val /\ val <= JS_SHORTINT_MAX
    THEN JSVal("int", val)
    ELSE JSVal("float64", val)

\* Numeric coercion to int32: status 0 and the number on success, status -1
\* (and no result written) for a value that cannot be converted.
JS_ToInt32(val) ==
    CASE val.tag = "int" -> [status |-> 0, res |-> val.v]
      [] val.tag = "float64" /\ INT32_MIN <= val.v /\ val.v <= INT32_MAX
             -> [status |-> 0, res |-> val.v]
      [] val.tag = "undefined" -> [status |-> 0, res |-> 0]
      [] OTHER -> [status |-> -1, res |-> 0]

NoError == [class |-> "none", message |-> ""]

\* Raises an InternalError in the context and returns the exception value;
\* no callback runs.
JS_ThrowInternalError(ctx, message) ==
    [calls |-> <<>>,
     ret |-> JS_EXCEPTION,
     raised |-> [class |-> "InternalError", message |-> message]]

JS_NewCFunctionParams(ctx, idx, params) ==
    [ctx |-> ctx, idx |-> idx, params |-> params]

(***************************************************************************)
(* Bridge functions                                                        *)
(***************************************************************************)
mqjs_get_swift_trampoline_index == 147

\* Variant: reads the parameter as a short integer only.
get_function_id_short_only(ctx, params) ==
    IF params.tag = "int" THEN params.v ELSE 0

get_function_id_from_params(ctx, params) ==
    LET func_id == 0
        r == JS_ToInt32(params)
    IN  IF r.status = 0 THEN r.res ELSE func_id

mqjs_new_native_function(ctx, function_id) ==
    LET params == JS_NewInt32(function_id)
        trampoline_idx == mqjs_get_swift_trampoline_index
    IN  JS_NewCFunctionParams(ctx, trampoline_idx, params)

mqjs_get_context_opaque(ctx) == ctx_opaque[ctx]

\* Variant: the callback is entered twice for one call.
CallNativeCallbackTwice(callback, opaque, func_id, argc, argv, env) ==
    LET act == [callback |-> callback, opaque |-> opaque,
                function_id |-> func_id, argc |-> argc, argv |-> argv,
                this_val |-> env.this_seen, returned |-> env.ret]
    IN  [calls |-> << act, act >>, value |-> env.ret]

\* The indirect call through g_native_callback.  The bridge passes four
\* arguments (opaque, function_id, argc, argv); the callback type of the
\* public header has a fifth parameter this_val, which the call does not
\* supply, so the callee reads an indeterminate value for it: env.this_seen.
\* env.ret is the value the host callback returns, which is the value of the
\* call expression.
CallNativeCallback(callback, opaque, func_id, argc, argv, env) ==
    [calls |-> << [callback |-> callback,
                   opaque |-> opaque,
                   function_id |-> func_id,
                   argc |-> argc,
                   argv |-> argv,
                   this_val |-> env.this_seen,
                   returned |-> env.ret] >>,
     value |-> env.ret]

\* Variant: no test of g_native_callback before the call.
js_swift_trampoline_unguarded(ctx, this_val, argc, argv, params, env) ==
    LET func_id == get_function_id_from_params(ctx, params)
        opaque == ctx_opaque[ctx]
        call == CallNativeCallback(g_native_callback, opaque, func_id,
                                   argc, argv, env)
    IN  [calls |-> call.calls, ret |-> call.value, raised |-> NoError]

\* Variant: an exception returned by the callback is swallowed.
js_swift_trampoline_swallow(ctx, this_val, argc, argv, params, env) ==
    IF g_native_callback = NULL
    THEN JS_ThrowInternalError(ctx, "Native callback not initialized")
    ELSE LET func_id == get_function_id_from_params(ctx, params)
             opaque == ctx_opaque[ctx]
             call == CallNativeCallback(g_native_callback, opaque, func_id,
                                        argc, argv, env)
         IN  [calls |-> call.calls,
              ret |-> IF call.value = JS_EXCEPTION THEN JS_UNDEFINED
                      ELSE call.value,
              raised |-> NoError]

\* Variant: the opaque pointer is read from one fixed context.
js_swift_trampoline_fixed_ctx(ctx, this_val, argc, argv, params, env) ==
    IF g_native_callback = NULL
    THEN JS_ThrowInternalError(ctx, "Native callback not initialized")
    ELSE LET func_id == get_function_id_from_params(ctx, params)
             opaque == ctx_opaque["ctx1"]
             call == CallNativeCallback(g_native_callback, opaque, func_id,
                                        argc, argv, env)
         IN  [calls |-> call.calls, ret |-> call.value, raised |-> NoError]

js_swift_trampoline(ctx, this_val, argc, argv, params, env) ==
    IF g_native_callback = NULL
    THEN JS_ThrowInternalError(ctx, "Native callback not initialized")
    ELSE LET func_id == get_function_id_from_params(ctx, params)
             opaque == ctx_opaque[ctx]
             call == CallNativeCallback(g_native_callback, opaque, func_id,
                                        argc, argv, env)
         IN  [calls |-> call.calls, ret |-> call.value, raised |-> NoError]

(***************************************************************************)
(* Inputs of an invocation                                                 *)
(***************************************************************************)
Receivers == {JS_UNDEFINED, JSObject(1)}

\* The script-level calls tried: a plain call without arguments and a method
\* call on an object with two arguments.
CallShapes == {[this_val |-> JS_UNDEFINED, argv |-> << >>],
               [this_val |-> JSObject(1),
                argv |-> << JS_NewInt32(1), JSObject(2) >>]}

CallbackReturns == {JS_NewInt32(42), JS_EXCEPTION}

\* What the host side contributes to one dispatched call: the value the
\* callback returns and the value it finds in its this_val parameter.
Environments == [ret : CallbackReturns, this_seen : Receivers]

NoCall == [kind |-> "none"]

CallRecord(f, this_val, argv, out) ==
    [kind |-> "call", func |-> f, this_val |-> this_val,
     argc |-> Len(argv), argv |-> argv,
     calls |-> out.calls, ret |-> out.ret, raised |-> out.raised]

(***************************************************************************)
(* State machine                                                           *)
(***************************************************************************)
Init ==
    /\ g_native_callback = NULL
    /\ ctx_opaque = [c \in Contexts |-> NULL]
    /\ funcs = {}
    /\ last = NoCall
    /\ last_callback_arg = Unset
    /\ last_opaque_arg = [c \in Contexts |-> Unset]

\* Variant: the first registration wins.
mqjs_set_native_callback_once(callback) ==
    /\ g_native_callback' =
           IF g_native_callback = NULL THEN callback ELSE g_native_callback
    /\ last_callback_arg' = callback
    /\ UNCHANGED <<ctx_opaque, funcs, last, last_opaque_arg>>

mqjs_set_native_callback(callback) ==
    /\ g_native_callback' = callback
    /\ last_callback_arg' = callback
    /\ UNCHANGED <<ctx_opaque, funcs, last, last_opaque_arg>>

\* Variant: one slot shared by all contexts.
mqjs_set_context_opaque_shared(ctx, opaque) ==
    /\ ctx_opaque' = [c \in Contexts |-> opaque]
    /\ last_opaque_arg' = [last_opaque_arg EXCEPT ![ctx] = opaque]
    /\ UNCHANGED <<g_native_callback, funcs, last, last_callback_arg>>

mqjs_set_context_opaque(ctx, opaque) ==
    /\ ctx_opaque' = [ctx_opaque EXCEPT ![ctx] = opaque]
    /\ last_opaque_arg' = [last_opaque_arg EXCEPT ![ctx] = opaque]
    /\ UNCHANGED <<g_native_callback, funcs, last, last_callback_arg>>

\* Variant: minting calls the new function once.
NewNativeFunctionEager(ctx, function_id) ==
    /\ Cardinality(funcs) < MaxFuncs
    /\ funcs' = funcs \cup {mqjs_new_native_function(ctx, function_id)}
    /\ LET f == mqjs_new_native_function(ctx, function_id)
           out == js_swift_trampoline(ctx, JS_UNDEFINED, 0, << >>, f.params,
                                      [ret |-> JS_UNDEFINED,
                                       this_seen |-> JS_UNDEFINED])
       IN  last' = CallRecord(f, JS_UNDEFINED, << >>, out)
    /\ UNCHANGED <<g_native_callback, ctx_opaque, last_callback_arg,
                   last_opaque_arg>>

NewNativeFunction(ctx, function_id) ==
    /\ Cardinality(funcs) < MaxFuncs
    /\ funcs' = funcs \cup {mqjs_new_native_function(ctx, function_id)}
    /\ UNCHANGED <<g_native_callback, ctx_opaque, last, last_callback_arg,
                   last_opaque_arg>>

\* Variant: a dispatched call consumes the registration.
InvokeOneShot(f, this_val, argv, env) ==
    /\ f.idx = mqjs_get_swift_trampoline_index
    /\ LET out == js_swift_trampoline(f.ctx, this_val, Len(argv), argv,
                                      f.params, env)
       IN  last' = CallRecord(f, this_val, argv, out)
    /\ g_native_callback' = NULL
    /\ UNCHANGED <<ctx_opaque, funcs, last_callback_arg, last_opaque_arg>>

\* Script calls the function value f: the engine enters the C function at
\* f.idx of its table with f's context, the receiver, the arguments and
\* f's bound parameter.
Invoke(f, this_val, argv, env) ==
    /\ f.idx = mqjs_get_swift_trampoline_index
    /\ LET out == js_swift_trampoline(f.ctx, this_val, Len(argv), argv,
                                      f.params, env)
       IN  last' = CallRecord(f, this_val, argv, out)
    /\ UNCHANGED <<g_native_callback, ctx_opaque, funcs, last_callback_arg,
                   last_opaque_arg>>

Next ==
    \/ \E cb \in Callbacks \cup {NULL} : mqjs_set_native_callback(cb)
    \/ \E c \in Contexts, p \in Pointers : mqjs_set_context_opaque(c, p)
    \/ \E c \in Contexts, i \in FunctionIds : NewNativeFunction(c, i)
    \/ \E f \in funcs, s \in CallShapes, e \in Environments :
           Invoke(f, s.this_val, s.argv, e)

Spec == Init /\ [][Next]_vars

(***************************************************************************)
(* Properties                                                              *)
(***************************************************************************)
NotInitialized ==
    [class |-> "InternalError", message |-> "Native callback not initialized"]

\* A step in which the trampoline ran and left a new call record.
TrampolineRan == last' # last

Dispatched == last.kind = "call" /\ Len(last.calls) = 1

Failed == last.kind = "call" /\ last.raised = NotInitialized

NativeFunction(c, i) ==
    [ctx |-> c, idx |-> 147, params |-> JS_NewInt32(i)]

\* C1: a call of a minted function while no callback is registered returns the
\* exception value with the internal error "Native callback not initialized",
\* enters no callback and changes nothing else of the bridge; a call made
\* after such a failure, once a callback is registered, is dispatched.
C1_UninitializedCall ==
    [][TrampolineRan =>
          IF g_native_callback = NULL
          THEN /\ last'.calls = << >>
               /\ last'.ret = JS_EXCEPTION
               /\ last'.raised = NotInitialized
               /\ UNCHANGED <<g_native_callback, ctx_opaque, funcs>>
          ELSE Failed => (Len(last'.calls) = 1 /\ last'.raised = NoError)]_vars

\* A call has failed for want of a callback and a callback has been
\* registered since.
C1_Witness == Failed /\ g_native_callback \in Callbacks

\* C2: while a callback is registered, every call of a minted function enters
\* the registered callback exactly once.
C2_ExactlyOnce ==
    [][(TrampolineRan /\ g_native_callback # NULL) =>
          /\ Len(last'.calls) = 1
          /\ last'.calls[1].callback = g_native_callback]_vars

C2_Witness ==
    /\ Dispatched
    /\ last.calls[1].callback = g_native_callback
    /\ last.argc = 2

\* C3: every dispatched call of a function minted with identifier i hands
\* function_id = i to the callback, and minted values are never altered or
\* dropped.
C3_IdentifierExact ==
    [][/\ funcs \subseteq funcs'
       /\ TrampolineRan =>
             /\ \E c \in Contexts, i \in FunctionIds :
                    last'.func = NativeFunction(c, i)
             /\ \A c \in Contexts, i \in FunctionIds :
                    last'.func = NativeFunction(c, i) =>
                        \A k \in DOMAIN last'.calls :
                            last'.calls[k].function_id = i]_vars

\* Functions 5 and 7 of one context are both alive and the call of 7 was
\* dispatched as 7.
C3_Witness ==
    \E c \in Contexts :
        /\ {NativeFunction(c, 5), NativeFunction(c, 7)} \subseteq funcs
        /\ Dispatched
        /\ last.func = NativeFunction(c, 7)
        /\ last.calls[1].function_id = 7

\* C4: the receiver the engine passed to the trampoline is the receiver the
\* callback observes.
C4_ReceiverPassed ==
    Dispatched => last.calls[1].this_val = last.this_val

\* C5: every call reaches the callback given to the last registration, and
\* only that one.
C5_LastWriteWins ==
    [][(TrampolineRan /\ last_callback_arg \in Callbacks) =>
          {last'.calls[k].callback : k \in DOMAIN last'.calls}
              = {last_callback_arg}]_vars

\* A function was called under cb1 and cb2 has been registered since.
C5_Witness ==
    /\ Dispatched
    /\ last.calls[1].callback = "cb1"
    /\ last_callback_arg = "cb2"

\* C6: the getter returns the last pointer set for that context.
C6_OpaqueLastSet ==
    \A c \in Contexts :
        last_opaque_arg[c] # Unset =>
            mqjs_get_context_opaque(c) = last_opaque_arg[c]

\* Both contexts hold different pointers, functions were minted, a callback
\* was registered and calls were made, the last one failing.
C6_Witness ==
    /\ last_opaque_arg["ctx1"] = "p1"
    /\ last_opaque_arg["ctx2"] = "p2"
    /\ last_callback_arg = NULL
    /\ Failed
    /\ Cardinality(funcs) >= 2

\* C7: with a callback registered the trampoline returns the value the
\* callback returned and raises no error of its own.
C7_ReturnVerbatim ==
    [][(TrampolineRan /\ g_native_callback # NULL) =>
          /\ Len(last'.calls) = 1
          /\ last'.ret = last'.calls[1].returned
          /\ last'.raised = NoError]_vars

\* The callback returned the exception value and the engine received it.
C7_Witness ==
    /\ Dispatched
    /\ last.calls[1].returned = JS_EXCEPTION
    /\ last.ret = JS_EXCEPTION

\* C8 as stated: once registered, always registered.
C8_RegisteredIsTerminal ==
    [][g_native_callback # NULL => g_native_callback' # NULL]_vars

\* C8 amended: the registration is a callback or NULL; it is NULL only before
\* the first registration or after a registration of NULL, and the step that
\* leaves the registered state changes nothing else.
C8_UnregisteredOnlyByNull ==
    [][/\ g_native_callback' \in Callbacks \cup {NULL}
       /\ g_native_callback' = NULL => last_callback_arg' \in {Unset, NULL}
       /\ (g_native_callback # NULL /\ g_native_callback' = NULL) =>
              UNCHANGED <<ctx_opaque, funcs, last, last_opaque_arg>>]_vars

\* A call was dispatched and NULL has been registered since.
C8_Witness ==
    /\ Dispatched
    /\ g_native_callback = NULL
    /\ last_callback_arg = NULL

\* C9: minting adds one function value bound to the trampoline with the
\* identifier and changes nothing else; no callback runs.
C9_MintIsPure ==
    [][funcs' # funcs =>
          /\ \E c \in Contexts, i \in FunctionIds :
                 funcs' = funcs \cup {NativeFunction(c, i)}
          /\ UNCHANGED <<g_native_callback, ctx_opaque, last>>]_vars

\* Two functions were minted with a callback registered and no callback has
\* run.
C9_Witness ==
    /\ Cardinality(funcs) >= 2
    /\ g_native_callback \in Callbacks
    /\ last = NoCall

\* C10: the callback receives the opaque pointer the calling context holds at
\* the call, and the argument count and array of the call.
C10_OpaqueAndArguments ==
    [][(TrampolineRan /\ g_native_callback # NULL) =>
          /\ Len(last'.calls) = 1
          /\ last'.calls[1].opaque = ctx_opaque[last'.func.ctx]
          /\ last'.calls[1].argc = last'.argc
          /\ last'.calls[1].argv = last'.argv]_vars

\* A call in ctx2 saw ctx2's pointer while ctx1 holds another one.
C10_Witness ==
    /\ Dispatched
    /\ last.func.ctx = "ctx2"
    /\ last.calls[1].opaque = "p2"
    /\ ctx_opaque["ctx1"] = "p1"
    /\ last.calls[1].argc = 2

====
